---- MODULE Spec2Model ----
(***************************************************************************)
(* A model of github.com/KarpelesLab/reflink: the path based operations    *)
(* Always and Auto (reflinkFile), the handle based operations Reflink and  *)
(* Partial, the platform adapters reflinkInternal, reflinkRangeInternal    *)
(* and copyFileRange, and the sectionWriter used by the streamed fallback. *)
(*                                                                         *)
(* One call is followed from its entry to its return.  Every system call   *)
(* the code makes is one step; its outcome (success, an errno, a short     *)
(* count) is chosen nondeterministically among the outcomes the kernel     *)
(* can give.  The files are kept by path: "src", "dst" and the temporary   *)
(* file reflinkFile creates next to dst.                                   *)
(*                                                                         *)
(* Three specifications: Spec follows one call of Always, Auto, Reflink or *)
(* Partial; SpecPar interleaves two calls of Always/Auto on one dst;       *)
(* SpecSW is any sequence of Write and Seek calls on one sectionWriter.    *)
(***************************************************************************)
EXTENDS Integers, Sequences, FiniteSets, TLC

\* ------------------------------------------------------------------ bounds
\* Longest file content, and the largest offset and length given to Partial.
MaxLen == 2
\* Bytes moved by one iteration of io.Copy's read/write loop.
ChunkSize == 1
\* The width given to int64: the offsets of a sectionWriter are IntBits bits wide.
IntBits == 4
\* The largest size the filesystem lets a file written through a sectionWriter reach
\* (s_maxbytes, RLIMIT_FSIZE).
MaxFile == 3

\* ------------------------------------------------------------------ values
SrcBytes == {"a", "b"}
\* The pattern a destination is pre-filled with, distinct from every source byte.
DstByte == "z"
\* What a read returns for a hole left by a write past the end of a file.
Hole == "0"

Modes == {"0600", "0644"}
\* ioutil.TempFile creates its file with mode 0600.
TempMode == "0600"
DstMode == "0644"

NoFile == [exists |-> FALSE, data |-> <<>>, mode |-> "none"]

\* The int64 values, and int64 arithmetic: a sum is kept modulo 2^IntBits.
MinInt == -(2 ^ (IntBits - 1))
MaxInt == (2 ^ (IntBits - 1)) - 1
Wrap(x) == ((x - MinInt) % (2 ^ IntBits)) + MinInt

Min(a, b) == IF a < b THEN a ELSE b
Max(a, b) == IF a > b THEN a ELSE b

SeqsUpTo(S, n) == UNION {[1..k -> S] : k \in 0..n}
Fill(b, k) == [i \in 1..k |-> b]

\* The failures of the underlying system calls.
\* ioctl(FICLONE / FICLONERANGE): the filesystem does not support it, the files are
\* on two filesystems, or the caller may not write.
CloneErrnos == {"ENOTSUP", "EXDEV", "EACCES"}
\* copy_file_range(2): no such system call, or a device error.
CopyErrnos == {"ENOSYS", "EIO"}
\* The errors that are plain I/O failures, none of the unsupported kinds.
IoErrnos == {"EACCES", "EIO", "ENOSPC", "ESTALE"}

\* ------------------------------------------------------------------ errors.go
ErrReflinkUnsupported == "ErrReflinkUnsupported"
ErrReflinkFailed == "ErrReflinkFailed"
nil == "nil"
\* io.EOF, which io.CopyN returns when its source ends early.
EOF == "EOF"

VARIABLES
    platform,   \* the build: "linux" (reflink_linux.go) or "other" (reflink.go)
    fs,         \* path -> file: [exists, data, mode]
    open,       \* the open handles: "s" and "tmp" of reflinkFile, and the "src"
                \* and "dst" the caller of Reflink and Partial passes
    call,       \* the running call: [op, fallback, dstOffset, srcOffset, n]; of a
                \* sectionWriter, the last call: [op, p] or [op, offset, whence]
    pc,         \* the position in the running call
    err,        \* the local variable err
    st,         \* st.Size() of the last successful Stat of the source
    fpos,       \* the file offsets of s and tmp that io.Copy(tmp, s) moves
    rd,         \* the io.SectionReader of the streamed fallback: [base, off, n]
    sw,         \* the sectionWriter of the streamed fallback: [base, off]
    result,     \* the value the call returned; of a sectionWriter, [n, err]
    pre,        \* history: the file at "dst" when the call started
    stages,     \* history: the stages the call attempted, in order
    faults,     \* history: the I/O failures the call met, in order: <<step, errno>>
    truncFailed, \* history: dst.Truncate(0) failed in this call
    parked      \* with two calls running at once: the call that is not at its step

vars == <<platform, fs, open, call, pc, err, st, fpos, rd, sw, result, pre,
          stages, faults, truncFailed, parked>>

\* ------------------------------------------------------------------ files

\* A variant of tmpName: the output is created at the destination path itself.
tmpNameIsDst == "dst"

\* tmp.Name(): the path ioutil.TempFile made up in filepath.Dir(dst).  TempFile
\* opens with O_EXCL, so the name is that of no existing file.
tmpName == "tmp"

\* A variant of WriteAt that cuts the file at the end of the write.
WriteAtTruncating(f, off, p) ==
    IF Len(p) = 0 THEN f
    ELSE [i \in 1..(off + Len(p)) |->
            IF i > off THEN p[i - off]
            ELSE IF i <= Len(f) THEN f[i]
            ELSE Hole]

\* (*os.File).WriteAt: p lands at off, the file grows when the write ends past its
\* end, and a gap between the old end and off reads as holes.  Nothing is written,
\* and the file does not grow, when p is empty.
WriteAt(f, off, p) ==
    IF Len(p) = 0 THEN f
    ELSE [i \in 1..Max(Len(f), off + Len(p)) |->
            IF i > off /\ i <= off + Len(p) THEN p[i - off]
            ELSE IF i <= Len(f) THEN f[i]
            ELSE Hole]

\* The k bytes of f from offset off on (fewer when f ends before).
ReadAt(f, off, k) == SubSeq(f, off + 1, Min(Len(f), off + k))

\* Records an I/O failure of the system call made at step.
Note(step, e) == IF e \in IoErrnos THEN Append(faults, <<step, e>>) ELSE faults

\* ------------------------------------------------------------------ adapters

\* What the clone ioctl can answer.  The build without the ioctl (reflink.go) makes
\* no system call at all.  A clone that succeeds gives the destination the
\* source's bytes (the whole file, or the range asked for); one that fails
\* writes nothing.
CloneOutcomes == IF platform = "linux" THEN {"ok"} \cup CloneErrnos ELSE {"none"}

\* A variant of the stub that reports the filesystem kind of error.
reflinkInternalOtherFailed == ErrReflinkFailed

\* reflink.go (!linux): reflinkInternal always returns ErrReflinkUnsupported.
reflinkInternalOther == ErrReflinkUnsupported

\* reflink_linux.go: the error reflinkInternal returns when the FICLONE ioctl
\* answers o; ENOTSUP becomes ErrReflinkFailed, any other errno is returned as is.
reflinkInternalLinux(o) ==
    IF o = "ok" THEN nil
    ELSE IF o = "ENOTSUP" THEN ErrReflinkFailed
    ELSE o

\* reflinkInternal(d, s) of the build.
reflinkInternal(o) ==
    IF platform = "linux" THEN reflinkInternalLinux(o) ELSE reflinkInternalOther

\* reflink.go (!linux): reflinkRangeInternal always returns ErrReflinkUnsupported.
reflinkRangeInternalOther == ErrReflinkUnsupported

\* reflink_linux.go: the error reflinkRangeInternal returns when the FICLONERANGE
\* ioctl answers o.
reflinkRangeInternalLinux(o) ==
    IF o = "ok" THEN nil
    ELSE IF o = "ENOTSUP" THEN ErrReflinkFailed
    ELSE o

\* reflinkRangeInternal(dst, src, dstOffset, srcOffset, n) of the build.
reflinkRangeInternal(o) ==
    IF platform = "linux" THEN reflinkRangeInternalLinux(o)
    ELSE reflinkRangeInternalOther

\* What copy_file_range(2) can answer to a request of n bytes from offset srcOff of
\* a source holding data: an errno, or the number of bytes it copied, which may be
\* fewer than asked and is 0 only at the end of the source.
CopyOutcomes(data, srcOff, n) ==
    IF platform # "linux" THEN {[k |-> 0, e |-> "none"]}
    ELSE LET m == Min(n, Max(0, Len(data) - srcOff))
         IN  {[k |-> 0, e |-> x] : x \in CopyErrnos}
             \cup {[k |-> c, e |-> "ok"] : c \in (IF m = 0 THEN {0} ELSE 1..m)}

\* A variant of the stub that reports a copy of no byte as done.
copyFileRangeOtherDone == [n |-> 0, err |-> nil]

\* reflink.go (!linux): copyFileRange always returns 0, ErrReflinkUnsupported.
copyFileRangeOther == [n |-> 0, err |-> ErrReflinkUnsupported]

\* reflink_linux.go: the (resN, err) copyFileRange returns when the system call
\* answers o: the count and nil, or -1 and the errno.
copyFileRangeLinux(o) ==
    IF o.e = "ok" THEN [n |-> o.k, err |-> nil]
    ELSE [n |-> -1, err |-> o.e]

\* copyFileRange(dst, src, dstOffset, srcOffset, n) of the build.
copyFileRange(o) ==
    IF platform = "linux" THEN copyFileRangeLinux(o) ELSE copyFileRangeOther

\* The destination after copy_file_range answered o: o.k bytes of the source from
\* srcOff on, at dstOff.
Copied(d, s, dstOff, srcOff, o) ==
    IF o.e = "ok" THEN WriteAt(d, dstOff, ReadAt(s, srcOff, o.k)) ELSE d

\* ------------------------------------------------------------------ state

NoCall == [op |-> "none", fallback |-> FALSE, dstOffset |-> 0, srcOffset |-> 0, n |-> 0]

\* No second call.
NoParked == [id |-> "none"]

Init ==
    /\ platform \in {"linux", "other"}
    /\ \E sdata \in SeqsUpTo(SrcBytes, MaxLen), smode \in Modes, dlen \in -1..MaxLen :
          fs = [p \in {"src", "dst", "tmp"} |->
                  CASE p = "src" -> [exists |-> TRUE, data |-> sdata, mode |-> smode]
                    [] p = "dst" -> IF dlen < 0 THEN NoFile
                                    ELSE [exists |-> TRUE, data |-> Fill(DstByte, dlen),
                                          mode |-> DstMode]
                    [] OTHER -> NoFile]
    /\ open = {}
    /\ call = NoCall
    /\ pc = "idle"
    /\ err = nil
    /\ st = 0
    /\ fpos = [s |-> 0, tmp |-> 0]
    /\ rd = [base |-> 0, off |-> 0, n |-> 0]
    /\ sw = [base |-> 0, off |-> 0]
    /\ result = "none"
    /\ pre = NoFile
    /\ stages = <<>>
    /\ faults = <<>>
    /\ truncFailed = FALSE
    /\ parked = NoParked

\* The handles a call is given: Reflink and Partial take two files their caller has
\* opened, Always and Auto take paths.
Passed(op) == IF op \in {"Reflink", "Partial"} THEN {"src", "dst"} ELSE {}

\* Entering a call: its arguments, and the destination as it is found.
Enter(op, fallback, dstOffset, srcOffset, n, first) ==
    /\ pc = "idle"
    /\ call' = [op |-> op, fallback |-> fallback, dstOffset |-> dstOffset,
                srcOffset |-> srcOffset, n |-> n]
    /\ pre' = fs["dst"]
    /\ open' = Passed(op)
    /\ pc' = first
    /\ UNCHANGED <<platform, parked, fs, err, st, fpos, rd, sw, result, stages,
                   faults, truncFailed>>

\* Adds a stage to the history, once.
Attempt(stage) ==
    IF Len(stages) > 0 /\ stages[Len(stages)] = stage THEN stages
    ELSE Append(stages, stage)

\* ------------------------------------------------------------------ api.go: Always, Auto

\* Always(src, dst): reflinkFile(src, dst, false).
Always == Enter("Always", FALSE, 0, 0, 0, "open")

\* Auto(src, dst): reflinkFile(src, dst, true).
Auto == Enter("Auto", TRUE, 0, 0, 0, "open")

\* A variant of FileReturn without the deferred s.Close().
FileReturnNoClose(e) ==
    /\ pc' = "done"
    /\ result' = e
    /\ open' = open

\* A return of reflinkFile: the deferred s.Close() runs.
FileReturn(e) ==
    /\ pc' = "done"
    /\ result' = e
    /\ open' = open \ {"s"}

\* s, err := os.Open(src); if err != nil { return err }; defer s.Close()
reflinkFile_Open ==
    /\ pc = "open"
    /\ \E o \in {"ok", "EACCES"} :
          /\ faults' = Note("open", o)
          /\ IF o = "ok"
             THEN /\ open' = open \cup {"s"}
                  /\ pc' = "temp"
                  /\ UNCHANGED <<result, err>>
             ELSE /\ err' = o
                  /\ FileReturn(o)
    /\ UNCHANGED <<platform, parked, fs, call, st, fpos, rd, sw, pre, stages, truncFailed>>

\* tmp, err := ioutil.TempFile(filepath.Dir(dst), ""); if err != nil { return err }
reflinkFile_TempFile ==
    /\ pc = "temp"
    /\ \E o \in {"ok", "EACCES"} :
          /\ faults' = Note("temp", o)
          /\ IF o = "ok"
             THEN /\ fs' = [fs EXCEPT ![tmpName] =
                               [exists |-> TRUE, data |-> <<>>, mode |-> TempMode]]
                  /\ open' = open \cup {"tmp"}
                  /\ pc' = "clone"
                  /\ UNCHANGED <<result, err>>
             ELSE /\ err' = o
                  /\ FileReturn(o)
                  /\ UNCHANGED fs
    /\ UNCHANGED <<platform, parked, call, st, fpos, rd, sw, pre, stages, truncFailed>>

\* err = reflinkInternal(tmp, s)
reflinkFile_Clone ==
    /\ pc = "clone"
    /\ \E o \in CloneOutcomes :
          /\ err' = reflinkInternal(o)
          /\ faults' = Note("clone", o)
          /\ fs' = IF o = "ok"
                   THEN [fs EXCEPT ![tmpName].data = fs["src"].data]
                   ELSE fs
    /\ stages' = Attempt("clone")
    /\ pc' = IF err' # nil /\ call.fallback THEN "stat" ELSE "close"
    /\ UNCHANGED <<platform, parked, open, call, st, fpos, rd, sw, result, pre, truncFailed>>

\* if (err != nil) && fallback { st, err = s.Stat(); if err == nil { ... } }
reflinkFile_Stat ==
    /\ pc = "stat"
    /\ \E o \in {"ok", "ESTALE"} :
          /\ faults' = Note("stat", o)
          /\ IF o = "ok"
             THEN /\ st' = Len(fs["src"].data)
                  /\ err' = nil
                  /\ pc' = "cfr"
             ELSE /\ err' = o
                  /\ pc' = "copy"
                  /\ UNCHANGED st
    /\ UNCHANGED <<platform, parked, fs, open, call, fpos, rd, sw, result, pre, stages,
                   truncFailed>>

\* _, err = copyFileRange(tmp, s, 0, 0, st.Size()): the count is dropped.
reflinkFile_CopyFileRange ==
    /\ pc = "cfr"
    /\ \E o \in CopyOutcomes(fs["src"].data, 0, st) :
          /\ err' = copyFileRange(o).err
          /\ faults' = Note("cfr", o.e)
          /\ fs' = [fs EXCEPT ![tmpName].data =
                        Copied(fs[tmpName].data, fs["src"].data, 0, 0, o)]
    /\ stages' = Attempt("cfr")
    /\ pc' = IF err' # nil /\ call.fallback THEN "copy" ELSE "close"
    /\ UNCHANGED <<platform, parked, open, call, st, fpos, rd, sw, result, pre, truncFailed>>

\* _, err = io.Copy(tmp, s): one turn of its loop (os.File may hand the copy to the
\* kernel; the bytes moved and the offsets are the same).  It reads the next chunk of s at
\* the offset of s and writes it to tmp at the offset of tmp; the end of s ends the
\* loop with a nil error, a failed read or write ends it with that error, and a
\* failed write may have written a part of the chunk.
reflinkFile_Copy ==
    /\ pc = "copy"
    /\ stages' = Attempt("copy")
    /\ LET data == fs["src"].data
           nr   == Min(ChunkSize, Max(0, Len(data) - fpos.s))
       IN  IF nr = 0
           THEN /\ err' = nil
                /\ pc' = "close"
                /\ UNCHANGED <<fs, fpos, faults>>
           ELSE \E o \in {"ok", "EIO", "ENOSPC"} :
                   \E nw \in (IF o = "ENOSPC" THEN 0..(nr - 1)
                              ELSE IF o = "ok" THEN {nr} ELSE {0}) :
                      /\ faults' = Note("copy", o)
                      /\ fs' = [fs EXCEPT ![tmpName].data =
                                   WriteAt(@, fpos.tmp, ReadAt(data, fpos.s, nw))]
                      /\ fpos' = [s   |-> fpos.s + (IF o = "EIO" THEN 0 ELSE nr),
                                  tmp |-> fpos.tmp + nw]
                      /\ err' = IF o = "ok" THEN err ELSE o
                      /\ pc' = IF o = "ok" THEN "copy" ELSE "close"
    /\ UNCHANGED <<platform, parked, open, call, st, rd, sw, result, pre, truncFailed>>

\* Where reflinkFile goes after tmp.Close(): if err != nil { os.Remove; return err }
AfterClose(e) == IF e # nil THEN "remove" ELSE "stat2"

\* tmp.Close()
reflinkFile_Close ==
    /\ pc = "close"
    /\ open' = open \ {"tmp"}
    /\ pc' = AfterClose(err)
    /\ UNCHANGED <<platform, parked, fs, call, err, st, fpos, rd, sw, result, pre, stages,
                   faults, truncFailed>>

\* if err != nil { os.Remove(tmp.Name()); return err }
reflinkFile_RemoveOnError ==
    /\ pc = "remove"
    /\ fs' = [fs EXCEPT ![tmpName] = NoFile]
    /\ FileReturn(err)
    /\ UNCHANGED <<platform, parked, call, err, st, fpos, rd, sw, pre, stages, faults,
                   truncFailed>>

\* if st, err := s.Stat(); err == nil { tmp.Chmod(st.Mode()) }: this err is a new
\* variable of the if statement.
reflinkFile_StatMode ==
    /\ pc = "stat2"
    /\ \E o \in {"ok", "ESTALE"} :
          /\ faults' = Note("stat2", o)
          /\ pc' = IF o = "ok" THEN "chmod" ELSE "rename"
    /\ UNCHANGED <<platform, parked, fs, open, call, err, st, fpos, rd, sw, result, pre,
                   stages, truncFailed>>

\* What (*os.File).Chmod can answer: on a closed handle os.ErrClosed, without a
\* system call; on an open one what fchmod(2) answers.
ChmodOutcomes(isOpen) == IF isOpen THEN {"ok", "EPERM"} ELSE {"ErrClosed"}

\* The file after (*os.File).Chmod(mode) answered o.
Chmod(f, mode, o) == IF o = "ok" THEN [f EXCEPT !.mode = mode] ELSE f

\* tmp.Chmod(st.Mode()): the error is dropped.
reflinkFile_Chmod ==
    /\ pc = "chmod"
    /\ \E o \in ChmodOutcomes("tmp" \in open) :
          fs' = [fs EXCEPT ![tmpName] = Chmod(@, fs["src"].mode, o)]
    /\ pc' = "rename"
    /\ UNCHANGED <<platform, parked, open, call, err, st, fpos, rd, sw, result, pre, stages,
                   faults, truncFailed>>

\* A variant of AfterRename that returns at once when the rename failed.
AfterRenameNoRemove(e) == "done"

\* Where reflinkFile goes after os.Rename: if err != nil { os.Remove; return err }
AfterRename(e) == IF e # nil THEN "remove2" ELSE "done"

\* err = os.Rename(tmp.Name(), dst): atomic, it replaces dst or changes nothing.
reflinkFile_Rename ==
    /\ pc = "rename"
    /\ \E o \in {"ok", "EACCES"} :
          /\ faults' = Note("rename", o)
          /\ err' = IF o = "ok" THEN nil ELSE o
          /\ fs' = IF o = "ok"
                   THEN [p \in DOMAIN fs |->
                           IF p = "dst" THEN fs[tmpName]
                           ELSE IF p = tmpName THEN NoFile
                           ELSE fs[p]]
                   ELSE fs
          /\ pc' = AfterRename(err')
          /\ IF pc' = "done"
             THEN /\ result' = err'
                  /\ open' = open \ {"s"}
             ELSE UNCHANGED <<result, open>>
    /\ UNCHANGED <<platform, parked, call, st, fpos, rd, sw, pre, stages, truncFailed>>

\* os.Remove(tmp.Name()); return err
reflinkFile_RemoveOnRenameError ==
    /\ pc = "remove2"
    /\ fs' = [fs EXCEPT ![tmpName] = NoFile]
    /\ FileReturn(err)
    /\ UNCHANGED <<platform, parked, call, err, st, fpos, rd, sw, pre, stages, faults,
                   truncFailed>>

reflinkFile ==
    \/ reflinkFile_Open
    \/ reflinkFile_TempFile
    \/ reflinkFile_Clone
    \/ reflinkFile_Stat
    \/ reflinkFile_CopyFileRange
    \/ reflinkFile_Copy
    \/ reflinkFile_Close
    \/ reflinkFile_RemoveOnError
    \/ reflinkFile_StatMode
    \/ reflinkFile_Chmod
    \/ reflinkFile_Rename
    \/ reflinkFile_RemoveOnRenameError

\* ------------------------------------------------------------------ sectionWriter

\* A variant of Write that advances the offset by the bytes it was given.
sectionWriter_WriteAdvancesLen(w, f, p, nw) ==
    [file |-> WriteAt(f, Wrap(w.base + w.off), SubSeq(p, 1, nw)),
     w    |-> [w EXCEPT !.off = Wrap(@ + Len(p))]]

\* (*sectionWriter).Write(p) when WriteAt wrote nw bytes of p: the bytes land at
\* base + off of the file f, and off advances by nw.
sectionWriter_Write(w, f, p, nw) ==
    [file |-> WriteAt(f, Wrap(w.base + w.off), SubSeq(p, 1, nw)),
     w    |-> [w EXCEPT !.off = Wrap(@ + nw)]]

\* whence: io.SeekStart, io.SeekCurrent, io.SeekEnd, and a value that is none of them.
SeekStart == 0
SeekCurrent == 1
SeekEnd == 2
Whences == {SeekStart, SeekCurrent, SeekEnd, SeekEnd + 1}

\* (*sectionWriter).Seek(offset, whence): the writer after the call, and the offset
\* and the error returned.
sectionWriter_Seek(w, offset, whence) ==
    LET target == IF whence = SeekCurrent THEN Wrap(offset + w.off) ELSE offset
    IN  IF whence \notin {SeekStart, SeekCurrent}
        THEN [w |-> w, n |-> w.off, err |-> "Seek: invalid whence"]
        ELSE IF target < 0
        THEN [w |-> w, n |-> w.off, err |-> "Seek: invalid offset"]
        ELSE [w |-> [w EXCEPT !.off = target], n |-> target, err |-> nil]

\* (*io.SectionReader).Read into a buffer of k bytes: what is left of the section,
\* and of the file under it, k bytes at most.  No byte means io.EOF.
SectionReader_Read(r, f, k) ==
    ReadAt(f, r.base + r.off, Min(k, Max(0, r.n - r.off)))

\* io.Copy(writer, reader) and io.CopyN(writer, reader, n): one turn of the loop.
\* limit is n for CopyN, which answers io.EOF when the reader ends before n bytes
\* were written, and -1 for Copy, which answers nil at the end of the reader.
StreamStep(limit, next) ==
    LET p == SectionReader_Read(rd, fs["src"].data, ChunkSize)
    IN  IF Len(p) = 0
        THEN /\ err' = IF limit >= 0 /\ sw.off < limit THEN EOF ELSE nil
             /\ pc' = next
             /\ UNCHANGED <<fs, rd, sw, faults>>
        ELSE \E o \in {"ok", "EIO", "ENOSPC"} :
                \E nw \in (IF o = "ENOSPC" THEN 0..(Len(p) - 1)
                           ELSE IF o = "ok" THEN {Len(p)} ELSE {0}) :
                   LET w == sectionWriter_Write(sw, fs["dst"].data, p, nw)
                   IN  /\ faults' = Note(pc, o)
                       /\ fs' = [fs EXCEPT !["dst"].data = w.file]
                       /\ sw' = w.w
                       /\ rd' = [rd EXCEPT !.off = @ + (IF o = "EIO" THEN 0 ELSE Len(p))]
                       /\ err' = IF o = "ok" THEN err ELSE o
                       /\ pc' = IF o = "ok" THEN pc ELSE next

\* ------------------------------------------------------------------ api.go: Reflink

\* Reflink(dst, src, fallback) on two open handles.
Reflink ==
    /\ fs["dst"].exists
    /\ \E fb \in BOOLEAN : Enter("Reflink", fb, 0, 0, 0, "r_clone")

\* A variant of StatError that returns the failure of Stat as it is.
StatErrorBare(e) == e

\* fmt.Errorf("failed to stat source: %w", err)
StatError(e) == <<"failed to stat source", e>>

\* err := reflinkInternal(dst, src)
Reflink_Clone ==
    /\ pc = "r_clone"
    /\ \E o \in CloneOutcomes :
          /\ err' = reflinkInternal(o)
          /\ faults' = Note("r_clone", o)
          /\ fs' = IF o = "ok"
                   THEN [fs EXCEPT !["dst"].data = fs["src"].data]
                   ELSE fs
    /\ stages' = Attempt("clone")
    /\ pc' = IF err' # nil /\ call.fallback THEN "r_stat" ELSE "r_return"
    /\ UNCHANGED <<platform, parked, open, call, st, fpos, rd, sw, result, pre, truncFailed>>

\* st, err = src.Stat(); if err != nil { return fmt.Errorf(...) }
Reflink_Stat ==
    /\ pc = "r_stat"
    /\ \E o \in {"ok", "ESTALE"} :
          /\ faults' = Note("r_stat", o)
          /\ IF o = "ok"
             THEN /\ st' = Len(fs["src"].data)
                  /\ err' = nil
                  /\ pc' = "r_cfr"
                  /\ UNCHANGED result
             ELSE /\ err' = o
                  /\ pc' = "done"
                  /\ result' = StatError(o)
                  /\ UNCHANGED st
    /\ UNCHANGED <<platform, parked, fs, open, call, fpos, rd, sw, pre, stages, truncFailed>>

\* _, err = copyFileRange(dst, src, 0, 0, st.Size()): the count is dropped.
\* if err != nil { reader := io.NewSectionReader(src, 0, st.Size());
\*                 writer := &sectionWriter{w: dst} ... }
Reflink_CopyFileRange ==
    /\ pc = "r_cfr"
    /\ \E o \in CopyOutcomes(fs["src"].data, 0, st) :
          /\ err' = copyFileRange(o).err
          /\ faults' = Note("r_cfr", o.e)
          /\ fs' = [fs EXCEPT !["dst"].data = Copied(@, fs["src"].data, 0, 0, o)]
    /\ stages' = Attempt("cfr")
    /\ IF err' # nil
       THEN /\ rd' = [base |-> 0, off |-> 0, n |-> st]
            /\ sw' = [base |-> 0, off |-> 0]
            /\ pc' = "r_trunc"
       ELSE /\ pc' = "r_return"
            /\ UNCHANGED <<rd, sw>>
    /\ UNCHANGED <<platform, parked, open, call, st, fpos, result, pre, truncFailed>>

\* dst.Truncate(0): the error is dropped.
Reflink_Truncate ==
    /\ pc = "r_trunc"
    /\ \E o \in {"ok", "EIO"} :
          /\ faults' = Note("r_trunc", o)
          /\ truncFailed' = (o # "ok")
          /\ fs' = IF o = "ok" THEN [fs EXCEPT !["dst"].data = <<>>] ELSE fs
    /\ pc' = "r_copy"
    /\ UNCHANGED <<platform, parked, open, call, err, st, fpos, rd, sw, result, pre, stages>>

\* _, err = io.Copy(writer, reader): one turn of its loop.
Reflink_Copy ==
    /\ pc = "r_copy"
    /\ stages' = Attempt("copy")
    /\ StreamStep(-1, "r_return")
    /\ UNCHANGED <<platform, parked, open, call, st, fpos, result, pre, truncFailed>>

\* return err
Reflink_Return ==
    /\ pc = "r_return"
    /\ pc' = "done"
    /\ result' = err
    /\ UNCHANGED <<platform, parked, fs, open, call, err, st, fpos, rd, sw, pre, stages,
                   faults, truncFailed>>

\* ------------------------------------------------------------------ api.go: Partial

\* Partial(dst, src, dstOffset, srcOffset, n, fallback) on two open handles.
Partial ==
    /\ fs["dst"].exists
    /\ \E fb \in BOOLEAN, dstOffset \in 0..MaxLen, srcOffset \in 0..MaxLen,
          n \in 0..MaxLen :
          Enter("Partial", fb, dstOffset, srcOffset, n, "p_clone")

\* What the ranged clone ioctl can answer: it refuses a range that ends past the
\* end of the source.
CloneRangeOutcomes ==
    IF platform # "linux" THEN {"none"}
    ELSE CloneErrnos \cup
         (IF call.srcOffset + call.n <= Len(fs["src"].data) THEN {"ok"} ELSE {"EINVAL"})

\* err := reflinkRangeInternal(dst, src, dstOffset, srcOffset, n)
Partial_Clone ==
    /\ pc = "p_clone"
    /\ \E o \in CloneRangeOutcomes :
          /\ err' = reflinkRangeInternal(o)
          /\ faults' = Note("p_clone", o)
          /\ fs' = IF o = "ok"
                   THEN [fs EXCEPT !["dst"].data =
                            WriteAt(@, call.dstOffset,
                                    ReadAt(fs["src"].data, call.srcOffset, call.n))]
                   ELSE fs
    /\ stages' = Attempt("clone")
    /\ pc' = IF err' # nil /\ call.fallback THEN "p_cfr" ELSE "p_return"
    /\ UNCHANGED <<platform, parked, open, call, st, fpos, rd, sw, result, pre, truncFailed>>

\* if (err != nil) && fallback { _, err = copyFileRange(dst, src, dstOffset, srcOffset, n) }
\* if (err != nil) && fallback { reader := io.NewSectionReader(src, srcOffset, n);
\*                               writer := &sectionWriter{w: dst, base: dstOffset} ... }
Partial_CopyFileRange ==
    /\ pc = "p_cfr"
    /\ \E o \in CopyOutcomes(fs["src"].data, call.srcOffset, call.n) :
          /\ err' = copyFileRange(o).err
          /\ faults' = Note("p_cfr", o.e)
          /\ fs' = [fs EXCEPT !["dst"].data =
                       Copied(@, fs["src"].data, call.dstOffset, call.srcOffset, o)]
    /\ stages' = Attempt("cfr")
    /\ IF err' # nil /\ call.fallback
       THEN /\ rd' = [base |-> call.srcOffset, off |-> 0, n |-> call.n]
            /\ sw' = [base |-> call.dstOffset, off |-> 0]
            /\ pc' = "p_copy"
       ELSE /\ pc' = "p_return"
            /\ UNCHANGED <<rd, sw>>
    /\ UNCHANGED <<platform, parked, open, call, st, fpos, result, pre, truncFailed>>

\* _, err = io.CopyN(writer, reader, n): one turn of its loop.
Partial_CopyN ==
    /\ pc = "p_copy"
    /\ stages' = Attempt("copy")
    /\ StreamStep(call.n, "p_return")
    /\ UNCHANGED <<platform, parked, open, call, st, fpos, result, pre, truncFailed>>

\* return err
Partial_Return ==
    /\ pc = "p_return"
    /\ pc' = "done"
    /\ result' = err
    /\ UNCHANGED <<platform, parked, fs, open, call, err, st, fpos, rd, sw, pre, stages,
                   faults, truncFailed>>

Next ==
    \/ Always
    \/ Auto
    \/ reflinkFile
    \/ Reflink
    \/ Reflink_Clone
    \/ Reflink_Stat
    \/ Reflink_CopyFileRange
    \/ Reflink_Truncate
    \/ Reflink_Copy
    \/ Reflink_Return
    \/ Partial
    \/ Partial_Clone
    \/ Partial_CopyFileRange
    \/ Partial_CopyN
    \/ Partial_Return

Spec == Init /\ [][Next]_vars

\* ------------------------------------------------------------------ properties

PathOp == call.op \in {"Always", "Auto"}
Done == pc = "done"
Dst == fs["dst"]
Src == fs["src"]

\* C1: after Always or Auto returned success, the file at dst is byte-identical to
\* the source, whichever stage produced the temporary file's content, also when
\* copy_file_range copied fewer bytes than asked.
C1_ContentEquality ==
    (PathOp /\ Done /\ result = nil) => (Dst.exists /\ Dst.data = Src.data)

\* C2: while Always or Auto runs, and after it returned an error, dst is what it was
\* before the call (absent, or its pre-call content and mode): dst changes only with
\* the rename of a successful call.
C2_DstUntouchedOnError ==
    (PathOp /\ ~(Done /\ result = nil)) => Dst = pre

\* C2, its case: the streamed copy failed after writing a part of the source, over
\* an existing destination.
C2_Witness ==
    /\ PathOp /\ Done /\ result = "ENOSPC"
    /\ fpos.tmp > 0 /\ fpos.tmp < Len(Src.data)
    /\ pre.exists /\ Len(pre.data) > 0

\* C3: after Always or Auto returned success, the permission bits of dst are those
\* of the source (stated for the calls in which no system call failed).
C3_ModePreserved ==
    (PathOp /\ Done /\ result = nil /\ faults = <<>>) => Dst.mode = Src.mode

C5_UnsupportedPropagation ==
    /\ (platform = "other" /\ call.op = "Always" /\ Done /\ faults = <<>>)
          => result = ErrReflinkUnsupported
    /\ (call.op = "Auto" /\ Done) => result # ErrReflinkUnsupported
    /\ (platform = "other" /\ call.op = "Auto" /\ Done /\ faults = <<>>)
          => (result = nil /\ stages = <<"clone", "cfr", "copy">>
              /\ Dst.data = Src.data)

\* C5, its case: Auto on the build without a clone primitive copied a source of
\* several bytes through the stream.
C5_Witness ==
    /\ platform = "other" /\ call.op = "Auto" /\ Done /\ result = nil
    /\ faults = <<>> /\ stages = <<"clone", "cfr", "copy">>
    /\ Len(Src.data) > 1 /\ Dst.data = Src.data

\* C6: after Reflink(dst, src, true) returned success, the content of dst is that
\* of src, whichever stage succeeded (stated for the claim's case of a dst that
\* was longer than src before the call).
C6_ReflinkReplaces ==
    (call.op = "Reflink" /\ call.fallback /\ Done /\ result = nil
        /\ Len(pre.data) > Len(Src.data))
        => Dst.data = Src.data

\* C7: Partial with fallback writes only destination bytes of
\* [dstOffset, dstOffset+n): the bytes outside keep their pre-call values at every
\* step, and on success the range holds src[srcOffset, srcOffset+n).
C7_PartialFrame ==
    (call.op = "Partial" /\ call.fallback) =>
        /\ \A i \in 1..Len(pre.data) :
              (i <= call.dstOffset \/ i > call.dstOffset + call.n)
                  => (i <= Len(Dst.data) /\ Dst.data[i] = pre.data[i])
        /\ (Done /\ result = nil /\ call.srcOffset + call.n <= Len(Src.data))
              => ReadAt(Dst.data, call.dstOffset, call.n)
                    = ReadAt(Src.data, call.srcOffset, call.n)

\* C8, as stated: Partial never changes the length of the destination.
C8_LengthUnchanged ==
    call.op = "Partial" => Len(Dst.data) = Len(pre.data)

\* C8, amended: no step of Partial shrinks the destination, and a non-empty range
\* that lies within the destination leaves its length as it was.
C8_NeverShrinks ==
    call.op = "Partial" =>
        /\ Len(Dst.data) >= Len(pre.data)
        /\ (call.n > 0 /\ call.dstOffset + call.n <= Len(pre.data))
              => Len(Dst.data) = Len(pre.data)

\* C8, its case: the streamed fallback of Partial wrote a range in the middle of a
\* longer destination.
C8_Witness ==
    /\ call.op = "Partial" /\ Done /\ result = nil
    /\ stages = <<"clone", "cfr", "copy">>
    /\ call.n > 0 /\ call.dstOffset + call.n < Len(pre.data)
    /\ Dst.data # pre.data

\* C9: Partial with n = 0 returns success and leaves the destination as it was, for
\* every value of fallback and on every platform.
C9_ZeroLengthNoop ==
    (call.op = "Partial" /\ call.n = 0 /\ Done) => (result = nil /\ Dst = pre)

\* The I/O failures of a call other than those of its best-effort mode copy.
StageFaults == SelectSeq(faults, LAMBDA f : f[1] # "stat2")

\* C10: an I/O failure met by a call is what the call returns (as it is, or wrapped
\* by Reflink's stat step): no later stage's result replaces it.
C10_IoFailureVerbatim ==
    (Done /\ StageFaults # <<>>)
        => (result = StageFaults[1][2] \/ result = StatError(StageFaults[1][2]))

\* ------------------------------------------------------------------ the adapters' errors

\* The answers of the clone ioctl that say the filesystem or the files cannot be
\* cloned (ioctl_ficlone(2)): EOPNOTSUPP, which is ENOTSUP on Linux, when the
\* filesystem has no reflink, EXDEV when the two files are on two filesystems.
\* errors.go gives ErrReflinkFailed for both cases.
CloneRejections == {"ENOTSUP", "EXDEV"}

\* The steps that call reflinkInternal or reflinkRangeInternal.
ClonePcs == {"clone", "r_clone", "p_clone"}

\* C11: on the build with the clone ioctl, the step that calls CloneWhole or
\* CloneRange never leaves the errno of a rejection by the filesystem in err: a
\* rejection is returned as ErrReflinkFailed (every other failure as it is).
C11_RejectionIsReflinkFailed ==
    [][(platform = "linux" /\ pc \in ClonePcs) => err' \notin CloneRejections]_vars

\* ------------------------------------------------------------------ Reflink: the stat step

\* C12: when Reflink's src.Stat() fails (after a failed clone, with fallback), the
\* call has returned an error that is none of the plain failures, that names the
\* stat step and wraps the failure of Stat, and the destination is as it was when
\* the call started: no stage after the clone ran, nothing was truncated or written.
C12_StatFailureReported ==
    \A i \in 1..Len(faults) :
       faults[i][1] = "r_stat" =>
          /\ call.op = "Reflink" /\ call.fallback
          /\ Done
          /\ result # faults[i][2]
          /\ result = StatError(faults[i][2])
          /\ result[1] = "failed to stat source"
          /\ result[2] = faults[i][2]
          /\ stages = <<"clone">>
          /\ fs["dst"] = pre

\* A Reflink on a non-empty destination whose clone was rejected and whose source
\* could not be stat'ed.
C12_Witness ==
    /\ call.op = "Reflink" /\ call.fallback /\ Done
    /\ platform = "linux"
    /\ faults = << <<"r_stat", "ESTALE">> >>
    /\ result = StatError("ESTALE")
    /\ Len(pre.data) > 0
    /\ Len(fs["src"].data) > 0

\* ------------------------------------------------------------------ the build without the primitives

\* The steps that call copyFileRange.
CopyPcs == {"cfr", "r_cfr", "p_cfr"}

\* C14: on the build without the primitives, every call of reflinkInternal,
\* reflinkRangeInternal and copyFileRange, whatever the files and the arguments,
\* returns ErrReflinkUnsupported and leaves every file as it is; the answer being
\* one constant, two calls with the same arguments return the same.
C14_StubsUnsupportedNoEffect ==
    [][(platform = "other" /\ pc \in ClonePcs \cup CopyPcs)
          => (err' = ErrReflinkUnsupported /\ fs' = fs)]_vars

\* A ranged call on the build without the primitives, after both stubs answered
\* and before any byte is streamed.
C14_Witness ==
    /\ platform = "other"
    /\ call.op = "Partial" /\ call.n > 0 /\ call.srcOffset < Len(fs["src"].data)
    /\ pc = "p_copy"
    /\ stages = <<"clone", "cfr">>
    /\ err = ErrReflinkUnsupported
    /\ Len(pre.data) > 0
    /\ fs["dst"] = pre

\* ------------------------------------------------------------------ the order of the stages

\* The steps that are a turn of the streamed copy (io.Copy, io.CopyN).
StreamPcs == {"copy", "r_copy", "p_copy"}

\* C15: the stages of a call run in the order clone, copyFileRange, streamed copy,
\* from the clone on.  The clone is called when no stage was attempted; copyFileRange
\* when the clone alone was attempted, it failed and fallback is set; the streamed
\* copy turns when clone and copyFileRange were both attempted, the last one
\* failed and fallback is set.  So each primitive is called once at most.
\* (err tells the clone's failure at Partial's copyFileRange alone: in reflinkFile
\* and Reflink the Stat of the source has overwritten it by then.)
C15_StageOrder ==
    [][/\ pc \in ClonePcs => stages = <<>>
       /\ pc \in CopyPcs =>
             /\ stages = <<"clone">>
             /\ call.fallback
             /\ (pc = "p_cfr" => err # nil)
       /\ pc \in StreamPcs =>
             /\ stages \in {<<"clone", "cfr">>, <<"clone", "cfr", "copy">>}
             /\ call.fallback
             /\ err # nil
       /\ stages' \in {<<>>, <<"clone">>, <<"clone", "cfr">>,
                       <<"clone", "cfr", "copy">>}]_vars

\* ------------------------------------------------------------------ a short copy_file_range

\* What the call asks of copyFileRange at its step: the file and the offset written
\* to, the offset read from, and the number of bytes.
CopyRequest ==
    CASE pc = "cfr"   -> [file |-> tmpName, d |-> 0, s |-> 0, n |-> st]
      [] pc = "r_cfr" -> [file |-> "dst", d |-> 0, s |-> 0, n |-> st]
      [] OTHER        -> [file |-> "dst", d |-> call.dstOffset, s |-> call.srcOffset,
                          n |-> call.n]

\* The steps at which a call enters its streamed copy.
StreamEntryPcs == {"copy", "r_trunc", "p_copy"}

\* C16: when copyFileRange returns no error and has copied fewer bytes than asked
\* (the range asked lies in the source, and the range of the destination does not
\* hold the source's bytes after the call), the call goes on to the streamed copy.
C16_ShortCopyFallsBack ==
    [][(/\ pc \in CopyPcs
        /\ call.fallback
        /\ CopyRequest.s + CopyRequest.n <= Len(fs["src"].data)
        /\ err' = nil
        /\ ReadAt(fs'[CopyRequest.file].data, CopyRequest.d, CopyRequest.n)
              # ReadAt(fs["src"].data, CopyRequest.s, CopyRequest.n))
          => pc' \in StreamEntryPcs]_vars

\* ------------------------------------------------------------------ Reflink: the truncation

\* C17: a Reflink whose dst.Truncate(0) failed does not return nil.
C17_TruncateFailureReported ==
    (call.op = "Reflink" /\ Done /\ truncFailed) => result # nil

\* ------------------------------------------------------------------ the handles

\* C18: when Always or Auto has returned, by whatever exit, the source it opened
\* and its temporary file are closed; at every step of a Reflink or a Partial, its
\* return included, the two handles it was given are open.
C18_HandlesClosed ==
    /\ (PathOp /\ Done) => open = {}
    /\ call.op \in {"Reflink", "Partial"} => open = {"src", "dst"}

\* An Auto that opened both files, wrote a part of the temporary file in its
\* streamed copy and returned the failure of a write.
C18_Witness ==
    /\ call.op = "Auto" /\ Done
    /\ stages = <<"clone", "cfr", "copy">>
    /\ faults = << <<"copy", "ENOSPC">> >>
    /\ result = "ENOSPC"
    /\ open = {}

\* ------------------------------------------------------------------ sectionWriter: Write and Seek

\* What (*os.File).WriteAt(p, pos) can answer on a file that may hold MaxFile bytes:
\* an error and no byte for a negative pos; else all of p when it fits, or an error
\* and fewer bytes than p has, within the room left.
WriteAtOutcomes(pos, p) ==
    IF pos < 0 THEN {[n |-> 0, err |-> "negative offset"]}
    ELSE LET room == Max(0, MaxFile - pos)
         IN  (IF Len(p) <= room THEN {[n |-> Len(p), err |-> nil]} ELSE {})
             \cup {[n |-> k, err |-> e] :
                     k \in 0..(Min(room, Len(p)) - 1) \cup
                           (IF room < Len(p) THEN {room} ELSE {}),
                     e \in {"ENOSPC"}}

\* The buffers given to Write: up to MaxLen bytes, each byte telling its place.
Payloads == {[i \in 1..k |-> IF i % 2 = 1 THEN "a" ELSE "b"] : k \in 0..MaxLen}

\* The offsets given to Seek: the two ends of int64 and the values around zero.
SeekOffsets == {MinInt, -1, 0, 1, MaxInt}

\* A sectionWriter as api.go makes it, &sectionWriter{w: dst, base: dstOffset}, on
\* a destination of any length.
InitSW ==
    /\ platform = "linux"
    /\ \E dlen \in 0..MaxLen :
          fs = [p \in {"src", "dst", "tmp"} |->
                  IF p = "dst"
                  THEN [exists |-> TRUE, data |-> Fill(DstByte, dlen), mode |-> DstMode]
                  ELSE NoFile]
    /\ \E base \in {0, 1} : sw = [base |-> base, off |-> 0]
    /\ open = {"dst"}
    /\ call = [op |-> "none"]
    /\ pc = "writer"
    /\ err = nil
    /\ st = 0
    /\ fpos = [s |-> 0, tmp |-> 0]
    /\ rd = [base |-> 0, off |-> 0, n |-> 0]
    /\ result = "none"
    /\ pre = NoFile
    /\ stages = <<>>
    /\ faults = <<>>
    /\ truncFailed = FALSE
    /\ parked = NoParked

\* One call of Write(p): n, err := s.w.WriteAt(p, s.base+s.off); s.off += int64(n);
\* return n, err.
Write ==
    /\ pc = "writer"
    /\ \E p \in Payloads :
          \E o \in WriteAtOutcomes(Wrap(sw.base + sw.off), p) :
             LET w == sectionWriter_Write(sw, fs["dst"].data, p, o.n)
             IN  /\ fs' = [fs EXCEPT !["dst"].data = w.file]
                 /\ sw' = w.w
                 /\ call' = [op |-> "Write", p |-> p]
                 /\ result' = o
    /\ UNCHANGED <<platform, parked, open, pc, err, st, fpos, rd, pre, stages, faults,
                   truncFailed>>

\* One call of Seek(offset, whence).
Seek ==
    /\ pc = "writer"
    /\ \E offset \in SeekOffsets, whence \in Whences :
          LET r == sectionWriter_Seek(sw, offset, whence)
          IN  /\ sw' = r.w
              /\ call' = [op |-> "Seek", offset |-> offset, whence |-> whence]
              /\ result' = [n |-> r.n, err |-> r.err]
    /\ UNCHANGED <<platform, parked, fs, open, pc, err, st, fpos, rd, pre, stages, faults,
                   truncFailed>>

NextSW == Write \/ Seek

\* Any sequence of Write and Seek calls on one sectionWriter.
SpecSW == InitSW /\ [][NextSW]_vars

\* C19: in every sequence of Write and Seek calls on a sectionWriter the relative
\* offset is never negative.  A Write that wrote n bytes (all of its buffer, a part
\* of it, or none) has put them at base + the offset before the call, has left every
\* other byte of the file as it was, and has advanced the offset by n.  A Seek from
\* the end, with a whence that is none of the three, or whose resulting offset is
\* negative, returns an error and leaves the offset as it was.
C19_SectionWriter ==
    [][LET old == fs["dst"].data
           new == fs'["dst"].data
           at  == sw.base + sw.off
           n   == result'.n
       IN  /\ sw'.off >= 0
           /\ call'.op = "Write" =>
                 /\ sw'.off = sw.off + n
                 /\ n \in 0..Len(call'.p)
                 /\ Len(new) = IF n = 0 THEN Len(old) ELSE Max(Len(old), at + n)
                 /\ \A i \in 1..Len(new) :
                       new[i] = IF i > at /\ i <= at + n THEN call'.p[i - at]
                                ELSE IF i <= Len(old) THEN old[i]
                                ELSE Hole
           /\ call'.op = "Seek" =>
                 LET target == IF call'.whence = SeekCurrent
                               THEN call'.offset + sw.off
                               ELSE call'.offset
                 IN  (call'.whence \notin {SeekStart, SeekCurrent} \/ target < 0)
                        => (result'.err # nil /\ sw'.off = sw.off)]_vars

\* A Write at a non-zero base, after the offset was moved, that wrote a part of its
\* buffer and returned an error.
C19_Witness ==
    /\ call.op = "Write"
    /\ result.err # nil
    /\ result.n > 0 /\ result.n < Len(call.p)
    /\ sw.base > 0
    /\ sw.off > result.n
    /\ fs["dst"].data[sw.base + sw.off] = call.p[result.n]

\* ------------------------------------------------------------------ two path calls on one dst

\* Two calls of reflinkFile run at once on the same dst, each from a source of its
\* own.  One call is at its step: its locals are the variables, its source is at
\* "src" and its temporary file at tmpName.  The other call is kept in parked, with
\* its source and with the temporary file ioutil.TempFile made for it: TempFile
\* opens with O_EXCL, so the two calls never get the same name.  "dst" is shared.

\* The contents of the two sources: the same length, no byte in common.
SrcOf(id) == Fill(IF id = "A" THEN "a" ELSE "b", MaxLen)

\* A call that has not made its first step.
Fresh(id, fallback) ==
    [id |-> id, pc |-> "open", err |-> nil, st |-> 0, fpos |-> [s |-> 0, tmp |-> 0],
     open |-> {}, result |-> "none", stages |-> <<>>, faults |-> <<>>,
     call |-> [op |-> IF fallback THEN "Auto" ELSE "Always", fallback |-> fallback,
               dstOffset |-> 0, srcOffset |-> 0, n |-> 0],
     src |-> [exists |-> TRUE, data |-> SrcOf(id), mode |-> "0644"],
     tmp |-> NoFile]

\* The call at its step, as a record of the same shape; id is the other call's.
Running(id) ==
    [id |-> id, pc |-> pc, err |-> err, st |-> st, fpos |-> fpos, open |-> open,
     result |-> result, stages |-> stages, faults |-> faults, call |-> call,
     src |-> fs["src"], tmp |-> fs[tmpName]]

\* Both calls have started (Always or Auto each) and none has made a step; dst is
\* absent or holds its own bytes.
InitPar ==
    /\ platform \in {"linux", "other"}
    /\ \E fa \in BOOLEAN, fb \in BOOLEAN, dlen \in {-1, MaxLen} :
          LET a == Fresh("A", fa)
              d == IF dlen < 0 THEN NoFile
                   ELSE [exists |-> TRUE, data |-> Fill(DstByte, dlen), mode |-> DstMode]
          IN  /\ parked = Fresh("B", fb)
              /\ call = a.call
              /\ fs = [p \in {"src", "dst", "tmp"} |->
                         CASE p = "src" -> a.src [] p = "dst" -> d [] OTHER -> NoFile]
              /\ pre = d
    /\ pc = "open"
    /\ open = {}
    /\ err = nil
    /\ st = 0
    /\ fpos = [s |-> 0, tmp |-> 0]
    /\ rd = [base |-> 0, off |-> 0, n |-> 0]
    /\ sw = [base |-> 0, off |-> 0]
    /\ result = "none"
    /\ stages = <<>>
    /\ faults = <<>>
    /\ truncFailed = FALSE

\* The scheduler lets the other call make the next step.
Switch ==
    /\ parked.id # "none"
    /\ parked.pc # "done"
    /\ parked' = Running(IF parked.id = "A" THEN "B" ELSE "A")
    /\ pc' = parked.pc
    /\ err' = parked.err
    /\ st' = parked.st
    /\ fpos' = parked.fpos
    /\ open' = parked.open
    /\ result' = parked.result
    /\ stages' = parked.stages
    /\ faults' = parked.faults
    /\ call' = parked.call
    /\ fs' = [p \in DOMAIN fs |->
                CASE p = "src" -> parked.src [] p = tmpName -> parked.tmp
                  [] OTHER -> fs[p]]
    /\ UNCHANGED <<platform, rd, sw, pre, truncFailed>>

NextPar == reflinkFile \/ Switch

SpecPar == InitPar /\ [][NextPar]_vars

BothDone == pc = "done" /\ parked.pc = "done"

\* C13: two Always/Auto calls run at once on one dst, under every interleaving of
\* their steps.  A step of one call leaves the other call's temporary file as it
\* is.  dst changes only when a rename succeeds, and then to the complete content
\* of the renaming call's source; so at every moment dst is as it was before the
\* calls or holds all of one source, and in the end the source of the call that
\* renamed last.  When both calls have returned no temporary file is left.
C13_LastRenameWins ==
    [][/\ parked'.id = parked.id => parked'.tmp = parked.tmp
       /\ fs'["dst"] # fs["dst"] =>
             /\ pc = "rename" /\ pc' = "done" /\ result' = nil
             /\ fs'["dst"].data = fs["src"].data
       /\ \/ fs'["dst"] = pre
          \/ fs'["dst"].exists /\ fs'["dst"].data \in {SrcOf("A"), SrcOf("B")}
       /\ BothDone' => (~fs'[tmpName].exists /\ ~parked'.tmp.exists)]_vars

====
